---- MODULE Spec2Model ----
(***************************************************************************)
(* Model of mmedit/models/editors/stable_diffusion/clip_wrapper.py:        *)
(*   - cosine_distance                                                     *)
(*   - StableDiffusionSafetyChecker.__init__ / forward                     *)
(*   - ClipCheckpointLoader.load_from_cache_subdir                         *)
(*                                                                         *)
(* Real numbers are fixed point: one unit is 1e-4, so 1.0 is 10000 and the *)
(* third decimal place is a multiple of 10 units.                          *)
(***************************************************************************)
EXTENDS Integers, Sequences, FiniteSets, TLC

VARIABLES
    \* ---- StableDiffusionSafetyChecker parameters (lines 37-41)
    concept_embeds, special_care_embeds,
    concept_embeds_weights, special_care_embeds_weights,
    \* ---- one call of forward (lines 44-90)
    pc,                 \* position of the checker / of the running call
    image_embeds,       \* line 46
    images,             \* the batch argument, mutated in place (line 82)
    images_in,          \* history: the batch as it was passed in
    special_cos_dist, cos_dist,     \* lines 49-50
    result, i, result_img, adjustment, concept_idx,   \* lines 52-76
    applied,            \* history: the adjustment operand of each score
    has_nsfw_concepts, idx,         \* lines 78-82
    warnings,           \* logger.warning calls made by the running call
    ret,                \* what the call gave back to its caller
    \* ---- ClipCheckpointLoader.load_from_cache_subdir (lines 94-117)
    lpc, lreq, lurl, fs, downloads, writes

fvars == <<concept_embeds, special_care_embeds, concept_embeds_weights,
           special_care_embeds_weights, pc, image_embeds, images, images_in,
           special_cos_dist, cos_dist, result, i, result_img, adjustment,
           concept_idx, applied, has_nsfw_concepts, idx, warnings, ret>>

lvars == <<lpc, lreq, lurl, fs, downloads, writes>>

vars == <<fvars, lvars>>

-----------------------------------------------------------------------------
(* Bounds of the model *)

MaxBatch == 2       \* largest batch passed to forward
Dim == 2            \* config.projection_dim
MaxCallers == 2     \* concurrent calls of load_from_cache_subdir

(* Program constants *)

Scale == 10000      \* fixed-point units per 1.0
Ks == 3             \* rows of special_care_embeds
Kg == 17            \* rows of concept_embeds
Bump == 100         \* adjustment = 0.01
Eps == 1            \* eps of nn.functional.normalize (1e-12): the smallest
                    \* positive quantity of the fixed-point grid
NaN == -999999999   \* IEEE not-a-number, produced by 0/0

-----------------------------------------------------------------------------
(* Arithmetic *)

RECURSIVE SqrtIter(_, _)
SqrtIter(x, r) ==
    LET nxt == (r + (x \div r)) \div 2
    IN  IF nxt >= r THEN r ELSE SqrtIter(x, nxt)

\* floor of the square root
ISqrt(x) == IF x <= 0 THEN 0 ELSE SqrtIter(x, x)

\* a / b to the nearest unit (b > 0)
RDiv(a, b) == ((2 * a) + b) \div (2 * b)

\* IEEE division of two fixed-point numbers: x / 0 has no finite value
FDiv(a, b) == IF a = NaN \/ b = NaN \/ b = 0 THEN NaN ELSE RDiv(a * Scale, b)

RECURSIVE SumTo(_, _)
SumTo(f, n) == IF n = 0 THEN 0 ELSE f[n] + SumTo(f, n - 1)

\* the L2 norm of a vector of fixed-point numbers
Norm(v) == ISqrt(SumTo([d \in 1..Len(v) |-> v[d] * v[d]], Len(v)))

\* clamp_min(eps) mutated: no guard on the denominator
ClampMinNone(n) == n

\* denominator of normalize: the norm, but never below eps
ClampMin(n) == IF n < Eps THEN Eps ELSE n

\* nn.functional.normalize, one row: v / max(||v||_2, eps)
Normalize(v) ==
    LET denom == ClampMin(Norm(v))
    IN  [d \in 1..Len(v) |-> FDiv(v[d], denom)]

\* one entry of torch.mm(a, b.t()): the dot product of two rows
Dot(a, b) ==
    IF \E d \in 1..Len(a) : a[d] = NaN \/ b[d] = NaN
    THEN NaN
    ELSE RDiv(SumTo([d \in 1..Len(a) |-> a[d] * b[d]], Len(a)), Scale)

\* torch.mm mutated: the inner dimensions are not compared
ShapeUnchecked(embeds, bank) == TRUE

\* torch.mm multiplies (N x D) by (D' x K) only when D = D'
ShapeOk(embeds, bank) == embeds.dim = bank.dim

\* cosine_distance: N x K matrix of cosine similarities, rows and columns
\* numbered from 0 as in the source.  Only defined when ShapeOk.
cosine_distance(embeds, bank) ==
    LET normalized_image_embeds ==
            [n \in 1..Len(embeds.rows) |-> Normalize(embeds.rows[n])]
        normalized_text_embeds ==
            [k \in 1..Len(bank.rows) |-> Normalize(bank.rows[k])]
    IN  [n \in 0..(Len(embeds.rows) - 1) |->
            [k \in 0..(Len(bank.rows) - 1) |->
                Dot(normalized_image_embeds[n + 1], normalized_text_embeds[k + 1])]]

\* round(x, 3): to the nearest multiple of 1e-3, ties to even
round3(x) ==
    IF x = NaN THEN NaN
    ELSE LET q == x \div 10
             r == x % 10
         IN  IF r < 5 THEN q * 10
             ELSE IF r > 5 THEN (q + 1) * 10
             ELSE IF q % 2 = 0 THEN q * 10 ELSE (q + 1) * 10

\* concept_cos - concept_threshold + adjustment
RawScore(cos, thr, adj) == IF cos = NaN THEN NaN ELSE cos - thr + adj

\* the test `score > 0` mutated to `score >= 0`
IsHitOrZero(score) == score # NaN /\ score >= 0

\* the test `score > 0` (false for NaN)
IsHit(score) == score # NaN /\ score > 0

-----------------------------------------------------------------------------
(* StableDiffusionSafetyChecker: parameters *)

\* a vector of dimension d with 1.0 at position p
UnitVec(p, d) == [x \in 1..d |-> IF x = p THEN Scale ELSE 0]

\* torch.ones(d)
OnesVec(d) == [x \in 1..d |-> Scale]

ZeroVec(d) == [x \in 1..d |-> 0]

\* torch.ones(k, d): the banks as __init__ leaves them
OnesBank(k, d) == [dim |-> d, rows |-> [r \in 1..k |-> OnesVec(d)]]

\* thresholds a checkpoint may hold for a special-care concept
SpecialThr == {9990, 10050}

\* thresholds a checkpoint may hold for the general concepts along axis 1
GeneralThr == {5000, 10050, 20000}

\* the general thresholds of a checkpoint: t for the concepts along axis 1;
\* along the last axis 1.0 for concept 1, 0.9996 for concepts 3, 7, 11, 15
\* and 0.9 for the others
GeneralWeights(t) ==
    [k \in 0..(Kg - 1) |-> IF k % 2 = 0 THEN t
                           ELSE IF k = 1 THEN 10000
                           ELSE IF k % 4 = 3 THEN 9996 ELSE 9000]

\* embedding dimensions a loaded bank may have
BankDims == {Dim, Dim + 1}

\* the special-care bank of a checkpoint: every concept along axis 1
SpecialBank(d) == [dim |-> d, rows |-> [r \in 1..Ks |-> UnitVec(1, d)]]

\* the general bank of a checkpoint: concepts alternate between axis 1 and
\* the last axis
GeneralBank(d) ==
    [dim |-> d,
     rows |-> [r \in 1..Kg |-> IF (r - 1) % 2 = 0 THEN UnitVec(1, d)
                                                  ELSE UnitVec(d, d)]]

\* image embeddings the vision model and projection may produce
EmbedChoices == {ZeroVec(Dim), UnitVec(1, Dim), UnitVec(Dim, Dim), OnesVec(Dim)}

\* the batches of images a caller may pass: one ndarray of N images, or a
\* list of N arrays; every image has its own non-zero pixel data
ImgShape == <<1, 1, 3>>

Pixels(n) == [x \in 1..3 |-> n]

Containers == {"ndarray", "list"}

DTypes == {"float32"}

Batch(kind, dtype, n) ==
    [kind |-> kind,
     items |-> [x \in 1..n |-> [shape |-> ImgShape, dtype |-> dtype,
                                data |-> Pixels(x)]]]

\* np.zeros(shape): an all-zero array, float64 unless a dtype is passed
np_zeros(shape) ==
    [shape |-> shape, dtype |-> "float64",
     data |-> [x \in 1..(shape[1] * shape[2] * shape[3]) |-> 0]]

\* images[idx] = value: a list rebinds the entry to the new array; an
\* ndarray copies the values into its own buffer, keeping its dtype
SetItem(batch, n, value) ==
    IF batch.kind = "ndarray"
    THEN [batch EXCEPT !.items[n] = [value EXCEPT !.dtype = batch.items[n].dtype]]
    ELSE [batch EXCEPT !.items[n] = value]

-----------------------------------------------------------------------------
(* StableDiffusionSafetyChecker.forward: the pieces of the per-image loop *)

EmptyResultImg ==
    [special_scores |-> <<>>, special_care |-> <<>>,
     concept_scores |-> <<>>, bad_concepts |-> <<>>]

EmptyApplied == [special |-> <<>>, general |-> <<>>]

\* line 59 mutated: the adjustment of the previous image is kept
KeepAdjustment(adj) == adj

\* line 59: adjustment = 0.0 at the start of every image
InitialAdjustment(adj) == 0

\* lines 65-67 mutated: the first hit itself is not counted
NoEscalation(adj, score) == adj

\* lines 65-67: a special-care hit sets the adjustment to 0.01
AdjustAfterSpecial(adj, score) == IF IsHit(score) THEN Bump ELSE adj

\* lines 73-74 mutated: the general loop escalates like the special loop
EscalateInGeneral(adj, score) == IF IsHit(score) THEN Bump ELSE adj

\* lines 73-74: the general loop leaves the adjustment alone
AdjustAfterGeneral(adj, score) == adj

\* lines 64, 72: round(concept_cos - concept_threshold + adjustment, 3)
Score(cos, thr, adj) == round3(RawScore(cos, thr, adj))

\* line 78 mutated: special-care hits flag the image too
HasNsfwOrSpecial(res) == Len(res.bad_concepts) > 0 \/ Len(res.special_care) > 0

\* line 78: len(res["bad_concepts"]) > 0
HasNsfw(res) == Len(res.bad_concepts) > 0

\* lines 84-88 mutated: one warning per flagged image
WarningPerImage(flags) == Cardinality({n \in 1..Len(flags) : flags[n]})

\* lines 84-88: one warning if any(has_nsfw_concepts)
WarningCount(flags) == IF \E n \in 1..Len(flags) : flags[n] THEN 1 ELSE 0

\* a 0-based Python list or dict with one more entry
Put(f, k, v) == [x \in 0..k |-> IF x = k THEN v ELSE f[x]]

-----------------------------------------------------------------------------
(* StableDiffusionSafetyChecker: construction and forward *)

Idle == pc \in {"constructed", "loaded"}

\* __init__, lines 31-41: banks and thresholds are all ones
InitChecker ==
    /\ concept_embeds = OnesBank(Kg, Dim)
    /\ special_care_embeds = OnesBank(Ks, Dim)
    /\ concept_embeds_weights = [k \in 0..(Kg - 1) |-> Scale]
    /\ special_care_embeds_weights = [k \in 0..(Ks - 1) |-> Scale]
    /\ pc = "constructed"
    /\ image_embeds = [dim |-> Dim, rows |-> <<>>]
    /\ images = Batch("list", "float32", 0)
    /\ images_in = Batch("list", "float32", 0)
    /\ special_cos_dist = <<>>
    /\ cos_dist = <<>>
    /\ result = <<>>
    /\ i = 0
    /\ result_img = EmptyResultImg
    /\ adjustment = 0
    /\ concept_idx = 0
    /\ applied = <<>>
    /\ has_nsfw_concepts = <<>>
    /\ idx = 0
    /\ warnings = 0
    /\ ret = "none"

\* from_pretrained (line 117) fills the parameters from a checkpoint
LoadPretrained ==
    /\ UNCHANGED lvars
    /\ pc = "constructed"
    /\ \E ds \in BankDims, dg \in BankDims,
          ts \in [0..(Ks - 1) -> SpecialThr], tg \in GeneralThr :
            /\ special_care_embeds' = SpecialBank(ds)
            /\ concept_embeds' = GeneralBank(dg)
            /\ special_care_embeds_weights' = ts
            /\ concept_embeds_weights' = GeneralWeights(tg)
    /\ pc' = "loaded"
    /\ UNCHANGED <<image_embeds, images, images_in, special_cos_dist, cos_dist,
                   result, i, result_img, adjustment, concept_idx, applied,
                   has_nsfw_concepts, idx, warnings, ret>>

\* forward, lines 44-53: embed the batch and compute both similarity
\* matrices; torch.mm raises on a dimension mismatch (line 49, then line 50)
Forward ==
    /\ UNCHANGED lvars
    /\ Idle
    /\ \E n \in 0..MaxBatch :
       \E embeds \in [1..n -> EmbedChoices], kind \in Containers, dtype \in DTypes :
        LET ie == [dim |-> Dim, rows |-> embeds] IN
        /\ image_embeds' = ie
        /\ images' = Batch(kind, dtype, n)
        /\ images_in' = Batch(kind, dtype, n)
        /\ result' = <<>>
        /\ applied' = <<>>
        /\ has_nsfw_concepts' = <<>>
        /\ warnings' = 0
        /\ i' = 0
        /\ idx' = 0
        /\ IF ~ShapeOk(ie, special_care_embeds)
           THEN /\ pc' = "raised"
                /\ ret' = "RuntimeError"
                /\ special_cos_dist' = <<>>
                /\ cos_dist' = <<>>
           ELSE IF ~ShapeOk(ie, concept_embeds)
           THEN /\ pc' = "raised"
                /\ ret' = "RuntimeError"
                /\ special_cos_dist' = cosine_distance(ie, special_care_embeds)
                /\ cos_dist' = <<>>
           ELSE /\ pc' = "for_i"
                /\ ret' = "none"
                /\ special_cos_dist' = cosine_distance(ie, special_care_embeds)
                /\ cos_dist' = cosine_distance(ie, concept_embeds)
    /\ UNCHANGED <<concept_embeds, special_care_embeds, concept_embeds_weights,
                   special_care_embeds_weights, result_img, adjustment,
                   concept_idx>>

batch_size == Len(image_embeds.rows)

\* lines 54-59: next image, fresh result_img and adjustment; or leave the loop
BeginImage ==
    /\ UNCHANGED lvars
    /\ pc = "for_i"
    /\ IF i < batch_size
       THEN /\ result_img' = EmptyResultImg
            /\ adjustment' = InitialAdjustment(adjustment)
            /\ concept_idx' = 0
            /\ pc' = "special"
       ELSE /\ pc' = "flags"
            /\ UNCHANGED <<result_img, adjustment, concept_idx>>
    /\ UNCHANGED <<concept_embeds, special_care_embeds, concept_embeds_weights,
                   special_care_embeds_weights, image_embeds, images, images_in,
                   special_cos_dist, cos_dist, result, i, applied,
                   has_nsfw_concepts, idx, warnings, ret>>

\* the history of adjustment operands of the image being scored
AppliedNow == IF Len(applied) > i THEN applied[i + 1] ELSE EmptyApplied

SetApplied(a) ==
    IF Len(applied) > i THEN [applied EXCEPT ![i + 1] = a] ELSE Append(applied, a)

\* lines 61-67: one iteration of the special-care loop.  Line 66 appends
\* the set literal {concept_idx, score}; the two values are kept here as the
\* fields of a record.
SpecialStep ==
    /\ UNCHANGED lvars
    /\ pc = "special"
    /\ LET concept_cos == special_cos_dist[i][concept_idx]
           concept_threshold == special_care_embeds_weights[concept_idx]
           score == Score(concept_cos, concept_threshold, adjustment)
       IN  /\ result_img' =
                [result_img EXCEPT
                   !.special_scores = Put(@, concept_idx, score),
                   !.special_care =
                       IF IsHit(score)
                       THEN Append(@, [concept_idx |-> concept_idx, score |-> score])
                       ELSE @]
           /\ adjustment' = AdjustAfterSpecial(adjustment, score)
           /\ applied' = SetApplied([AppliedNow EXCEPT
                              !.special = Put(@, concept_idx, adjustment)])
    /\ IF concept_idx + 1 < Ks
       THEN /\ concept_idx' = concept_idx + 1
            /\ pc' = "special"
       ELSE /\ concept_idx' = 0
            /\ pc' = "general"
    /\ UNCHANGED <<concept_embeds, special_care_embeds, concept_embeds_weights,
                   special_care_embeds_weights, image_embeds, images, images_in,
                   special_cos_dist, cos_dist, result, i,
                   has_nsfw_concepts, idx, warnings, ret>>

\* lines 69-74: one iteration of the general loop
GeneralStep ==
    /\ UNCHANGED lvars
    /\ pc = "general"
    /\ LET concept_cos == cos_dist[i][concept_idx]
           concept_threshold == concept_embeds_weights[concept_idx]
           score == Score(concept_cos, concept_threshold, adjustment)
       IN  /\ result_img' =
                [result_img EXCEPT
                   !.concept_scores = Put(@, concept_idx, score),
                   !.bad_concepts =
                       IF IsHit(score) THEN Append(@, concept_idx) ELSE @]
           /\ adjustment' = AdjustAfterGeneral(adjustment, score)
           /\ applied' = SetApplied([AppliedNow EXCEPT
                              !.general = Put(@, concept_idx, adjustment)])
    /\ IF concept_idx + 1 < Kg
       THEN /\ concept_idx' = concept_idx + 1
            /\ pc' = "general"
       ELSE /\ concept_idx' = 0
            /\ pc' = "append"
    /\ UNCHANGED <<concept_embeds, special_care_embeds, concept_embeds_weights,
                   special_care_embeds_weights, image_embeds, images, images_in,
                   special_cos_dist, cos_dist, result, i,
                   has_nsfw_concepts, idx, warnings, ret>>

\* line 76: result.append(result_img)
AppendResult ==
    /\ UNCHANGED lvars
    /\ pc = "append"
    /\ result' = Append(result, result_img)
    /\ i' = i + 1
    /\ pc' = "for_i"
    /\ UNCHANGED <<concept_embeds, special_care_embeds, concept_embeds_weights,
                   special_care_embeds_weights, image_embeds, images, images_in,
                   special_cos_dist, cos_dist, result_img, adjustment,
                   concept_idx, applied, has_nsfw_concepts, idx, warnings, ret>>

\* line 78: one flag per result, in order
ComputeFlags ==
    /\ UNCHANGED lvars
    /\ pc = "flags"
    /\ has_nsfw_concepts' = [n \in 1..Len(result) |-> HasNsfw(result[n])]
    /\ idx' = 0
    /\ pc' = "redact"
    /\ UNCHANGED <<concept_embeds, special_care_embeds, concept_embeds_weights,
                   special_care_embeds_weights, image_embeds, images, images_in,
                   special_cos_dist, cos_dist, result, i, result_img, adjustment,
                   concept_idx, applied, warnings, ret>>

\* lines 80-82: one iteration of the redaction loop, or its end
Redact ==
    /\ UNCHANGED lvars
    /\ pc = "redact"
    /\ IF idx < Len(has_nsfw_concepts)
       THEN /\ images' = IF has_nsfw_concepts[idx + 1]
                         THEN SetItem(images, idx + 1,
                                      np_zeros(images.items[idx + 1].shape))
                         ELSE images
            /\ idx' = idx + 1
            /\ pc' = "redact"
       ELSE /\ pc' = "warn"
            /\ UNCHANGED <<images, idx>>
    /\ UNCHANGED <<concept_embeds, special_care_embeds, concept_embeds_weights,
                   special_care_embeds_weights, image_embeds, images_in,
                   special_cos_dist, cos_dist, result, i, result_img, adjustment,
                   concept_idx, applied, has_nsfw_concepts, warnings, ret>>

\* lines 84-88: the batch-level advisory
Warn ==
    /\ UNCHANGED lvars
    /\ pc = "warn"
    /\ warnings' = warnings + WarningCount(has_nsfw_concepts)
    /\ pc' = "return"
    /\ UNCHANGED <<concept_embeds, special_care_embeds, concept_embeds_weights,
                   special_care_embeds_weights, image_embeds, images, images_in,
                   special_cos_dist, cos_dist, result, i, result_img, adjustment,
                   concept_idx, applied, has_nsfw_concepts, idx, ret>>

\* line 90: return images, has_nsfw_concepts
Return ==
    /\ UNCHANGED lvars
    /\ pc = "return"
    /\ ret' = [images |-> images, flags |-> has_nsfw_concepts]
    /\ pc' = "done"
    /\ UNCHANGED <<concept_embeds, special_care_embeds, concept_embeds_weights,
                   special_care_embeds_weights, image_embeds, images, images_in,
                   special_cos_dist, cos_dist, result, i, result_img, adjustment,
                   concept_idx, applied, has_nsfw_concepts, idx, warnings>>

\* the call is over (returned at line 90, or raised at line 49 or 50): its
\* frame is dropped and the checker is ready for the next call.  The name
\* `adjustment` keeps its last value, which no later call may read.
EndCall ==
    /\ UNCHANGED lvars
    /\ pc \in {"done", "raised"}
    /\ pc' = "loaded"
    /\ image_embeds' = [dim |-> Dim, rows |-> <<>>]
    /\ images' = Batch("list", "float32", 0)
    /\ images_in' = Batch("list", "float32", 0)
    /\ special_cos_dist' = <<>>
    /\ cos_dist' = <<>>
    /\ result' = <<>>
    /\ i' = 0
    /\ result_img' = EmptyResultImg
    /\ concept_idx' = 0
    /\ applied' = <<>>
    /\ has_nsfw_concepts' = <<>>
    /\ idx' = 0
    /\ warnings' = 0
    /\ ret' = "none"
    /\ UNCHANGED <<concept_embeds, special_care_embeds, concept_embeds_weights,
                   special_care_embeds_weights, adjustment>>

-----------------------------------------------------------------------------
(* ClipCheckpointLoader.load_from_cache_subdir *)

Callers == 1..MaxCallers

Subdirs == {"stable_diffusion", "clip"}

\* resource URLs; os.path.basename(urlparse(url).path) is the field name
Urls == {[host |-> "hub", name |-> "config.json"],
         [host |-> "hub", name |-> "model.bin"]}

\* list(model_dir_dict.values())[1:] of the dictionaries callers pass
ResourceLists ==
    {<<[host |-> "hub", name |-> "config.json"]>>,
     <<[host |-> "hub", name |-> "config.json"],
       [host |-> "hub", name |-> "model.bin"]>>}

KwargChoices == {"None", "dict"}

\* os.path.join(hub_dir, 'checkpoints', subdir_path)
ModelDir(subdir) == [dir |-> subdir, name |-> ""]

\* os.path.join(model_dir, filename)
CachedFile(subdir, url) == [dir |-> subdir, name |-> url.name]

CachedFiles == {CachedFile(sd, u) : sd \in Subdirs, u \in Urls}

NoRequest == [subdir_name |-> "", resource_files |-> <<>>, loading_kwargs |-> "None"]

InitLoader ==
    /\ lpc = [p \in Callers |-> "idle"]
    /\ lreq = [p \in Callers |-> NoRequest]
    /\ lurl = [p \in Callers |-> 0]
    /\ fs = {}
    /\ downloads = [f \in CachedFiles |-> 0]
    /\ writes = {}

\* os.path.exists(cached_file), line 109
Exists(path) == path \in fs

\* lines 95-97: a caller enters with its dictionary and keyword arguments
LCall(p) ==
    /\ UNCHANGED fvars
    /\ lpc[p] = "idle"
    /\ \E sd \in Subdirs, rf \in ResourceLists, kw \in KwargChoices :
        lreq' = [lreq EXCEPT ![p] = [subdir_name |-> sd, resource_files |-> rf,
                                     loading_kwargs |-> kw]]
    /\ lpc' = [lpc EXCEPT ![p] = "breakpoint"]
    /\ UNCHANGED <<lurl, fs, downloads, writes>>

\* line 99: pdb.set_trace() stops the call in the debugger; the operator
\* either continues it or quits, which raises BdbQuit out of the call
LBreakpoint(p) ==
    /\ UNCHANGED fvars
    /\ lpc[p] = "breakpoint"
    /\ \E cmd \in {"continue", "quit"} :
        lpc' = [lpc EXCEPT ![p] = IF cmd = "continue" THEN "mkdir" ELSE "quit"]
    /\ UNCHANGED <<lreq, lurl, fs, downloads, writes>>

\* lines 101-103: mkdir_or_exist(model_dir)
LMkdir(p) ==
    /\ UNCHANGED fvars
    /\ lpc[p] = "mkdir"
    /\ fs' = fs \cup {ModelDir(lreq[p].subdir_name)}
    /\ lurl' = [lurl EXCEPT ![p] = 1]
    /\ lpc' = [lpc EXCEPT ![p] = "loop"]
    /\ UNCHANGED <<lreq, downloads, writes>>

\* lines 105-113: next url; a cache hit skips it, a miss starts the download
LCheck(p) ==
    /\ UNCHANGED fvars
    /\ lpc[p] = "loop"
    /\ IF lurl[p] > Len(lreq[p].resource_files)
       THEN /\ lpc' = [lpc EXCEPT ![p] = "load"]
            /\ UNCHANGED <<lurl, downloads, writes>>
       ELSE LET cached_file ==
                    CachedFile(lreq[p].subdir_name, lreq[p].resource_files[lurl[p]])
            IN  IF Exists(cached_file)
                THEN /\ lurl' = [lurl EXCEPT ![p] = @ + 1]
                     /\ UNCHANGED <<lpc, downloads, writes>>
                ELSE /\ downloads' = [downloads EXCEPT ![cached_file] = @ + 1]
                     /\ writes' = writes \cup {[caller |-> p, file |-> cached_file]}
                     /\ lpc' = [lpc EXCEPT ![p] = "download"]
                     /\ UNCHANGED lurl
    /\ UNCHANGED <<lreq, fs>>

\* lines 113-114: download_url_to_file finishes and the cached file exists
LDownloaded(p) ==
    /\ UNCHANGED fvars
    /\ lpc[p] = "download"
    /\ LET cached_file ==
               CachedFile(lreq[p].subdir_name, lreq[p].resource_files[lurl[p]])
       IN  /\ fs' = fs \cup {cached_file}
           /\ writes' = writes \ {[caller |-> p, file |-> cached_file]}
    /\ lurl' = [lurl EXCEPT ![p] = @ + 1]
    /\ lpc' = [lpc EXCEPT ![p] = "loop"]
    /\ UNCHANGED <<lreq, downloads>>

\* lines 116-117: father.from_pretrained(model_dir, **loading_kwargs);
\* ** of the default None raises TypeError
LFromPretrained(p) ==
    /\ UNCHANGED fvars
    /\ lpc[p] = "load"
    /\ lpc' = [lpc EXCEPT ![p] =
                 IF lreq[p].loading_kwargs = "None" THEN "TypeError" ELSE "returned"]
    /\ UNCHANGED <<lreq, lurl, fs, downloads, writes>>

Init == InitChecker /\ InitLoader

LoaderNext ==
    \/ \E p \in Callers : LCall(p)
    \/ \E p \in Callers : LBreakpoint(p)
    \/ \E p \in Callers : LMkdir(p)
    \/ \E p \in Callers : LCheck(p)
    \/ \E p \in Callers : LDownloaded(p)
    \/ \E p \in Callers : LFromPretrained(p)

\* the loader alone, called from MaxCallers threads
SpecLoader == Init /\ [][LoaderNext]_vars

\* C9 (as claimed): under any interleaving of concurrent calls a cached
\* file is downloaded at most once, and no call is writing a cached file
\* that another call is writing or has completed.
C9_DownloadedAtMostOnce ==
    \A f \in CachedFiles :
        /\ downloads[f] <= 1
        /\ Cardinality({w \in writes : w.file = f}) <= 1
        /\ f \in fs => \A w \in writes : w.file # f

-----------------------------------------------------------------------------
(* The safety checker *)

Next ==
    \/ LoadPretrained
    \/ Forward
    \/ BeginImage
    \/ SpecialStep
    \/ GeneralStep
    \/ AppendResult
    \/ ComputeFlags
    \/ Redact
    \/ Warn
    \/ Return
    \/ EndCall

Spec == Init /\ [][Next]_vars

-----------------------------------------------------------------------------
(* Properties of forward *)

\* the call has come back to its caller with a value
Returned == pc = "done"

\* the images whose scoring has begun, and the verdict of each so far
Scored == 1..Len(applied)

ResultOf(n) == IF n <= Len(result) THEN result[n] ELSE result_img

SpecialRaw(n, k) ==
    special_cos_dist[n - 1][k] - special_care_embeds_weights[k]
        + applied[n].special[k]

GeneralRaw(n, k) ==
    cos_dist[n - 1][k] - concept_embeds_weights[k] + applied[n].general[k]

Members(list) == {list[x] : x \in 1..Len(list)}

SpecialCareIdx(res) == {e.concept_idx : e \in Members(res.special_care)}

\* C1: forward returns one flag per image of the batch, in input order;
\* bad_concepts holds the general concepts whose rounded score is > 0, and
\* flags[n] is true iff bad_concepts of image n is non-empty, so an image
\* with special-care hits and no general hit is not flagged.
C1_FlagsFollowBadConcepts ==
    Returned =>
        /\ Len(ret.flags) = Len(images_in.items)
        /\ Len(result) = Len(images_in.items)
        /\ \A n \in 1..Len(result) :
            /\ ret.flags[n] \in BOOLEAN
            /\ Members(result[n].bad_concepts) =
                 {k \in 0..(Kg - 1) :
                    round3(GeneralRaw(n, k)) > 0}
            /\ ret.flags[n] <=> (Members(result[n].bad_concepts) # {})
            /\ (Len(result[n].special_care) > 0
                  /\ \A k \in 0..(Kg - 1) : result[n].concept_scores[k] <= 0)
               => ~ret.flags[n]

\* a batch came back with a special-care-only image left unflagged next to
\* a flagged one
C1_Witness ==
    /\ Returned
    /\ \E n, m \in 1..Len(result) :
        /\ Len(result[n].special_care) > 0
        /\ Len(result[n].bad_concepts) = 0
        /\ ~ret.flags[n]
        /\ ret.flags[m]

\* C2: the adjustment added to every general score of an image is 0.01 if
\* one of its special scores is > 0 and 0.0 otherwise; the general loop
\* does not change it; a general concept with similarity - threshold =
\* -0.005 is in bad_concepts exactly when the image has a special-care hit.
C2_GeneralAdjustment ==
    \A n \in Scored :
        LET res == ResultOf(n)
            final == IF \E k \in DOMAIN res.special_scores :
                            res.special_scores[k] > 0
                     THEN Bump ELSE 0
        IN  /\ \A k \in DOMAIN applied[n].general :
                /\ applied[n].general[k] = final
                /\ (cos_dist[n - 1][k] - concept_embeds_weights[k] = -50)
                     => ((k \in Members(res.bad_concepts))
                            <=> (Len(res.special_care) > 0))
            /\ (n = i + 1 /\ pc \in {"general", "append"}) => adjustment = final

\* an image with a special-care hit had a general concept 0.005 under its
\* threshold put in bad_concepts
C2_Witness ==
    /\ Returned
    /\ \E n \in 1..Len(result) : \E k \in 0..(Kg - 1) :
        /\ cos_dist[n - 1][k] - concept_embeds_weights[k] = -50
        /\ k \in Members(result[n].bad_concepts)
        /\ Len(result[n].special_care) > 0
        /\ applied[n].general[k] = Bump

\* C3 (as claimed): after forward returns, an unflagged image is identical
\* to its input, and a flagged image is all zero with the shape and the
\* dtype of the original; no other entry is written.
C3_RedactionKeepsShapeAndDtype ==
    Returned =>
        /\ Len(ret.images.items) = Len(images_in.items)
        /\ \A n \in 1..Len(images_in.items) :
            IF ret.flags[n]
            THEN /\ \A x \in DOMAIN ret.images.items[n].data :
                        ret.images.items[n].data[x] = 0
                 /\ ret.images.items[n].shape = images_in.items[n].shape
                 /\ ret.images.items[n].dtype = images_in.items[n].dtype
            ELSE ret.images.items[n] = images_in.items[n]

\* C4: a call that returns has emitted the advisory once if some image was
\* flagged and not at all otherwise; a call never emits it twice, and a
\* call raises only for a dimension mismatch, never because of a flag.
C4_OneAdvisoryPerBatch ==
    /\ warnings <= 1
    /\ Returned =>
        /\ warnings = IF \E n \in 1..Len(ret.flags) : ret.flags[n] THEN 1 ELSE 0
        /\ ret.flags = has_nsfw_concepts
        /\ ret.images = images
    /\ pc = "raised" =>
        (image_embeds.dim # special_care_embeds.dim
            \/ image_embeds.dim # concept_embeds.dim)
    /\ (\E n \in 1..Len(has_nsfw_concepts) : has_nsfw_concepts[n])
        => pc \in {"redact", "warn", "return", "done"}

\* a batch with two flagged images came back with one advisory
C4_Witness ==
    /\ Returned
    /\ Len(ret.flags) >= 2
    /\ ret.flags[1] /\ ret.flags[2]
    /\ warnings = 1

\* the verdict of one image written as a function of its own two
\* similarity rows and the thresholds alone
RECURSIVE OwnAdjustment(_, _)
OwnAdjustment(srow, k) ==
    IF k = 0 THEN 0
    ELSE IF OwnAdjustment(srow, k - 1) = Bump THEN Bump
    ELSE IF round3(srow[k - 1] - special_care_embeds_weights[k - 1]) > 0
         THEN Bump ELSE 0

OwnSpecialScores(srow) ==
    [k \in 0..(Ks - 1) |->
        round3(srow[k] - special_care_embeds_weights[k] + OwnAdjustment(srow, k))]

OwnConceptScores(srow, grow) ==
    LET final == OwnAdjustment(srow, Ks)
    IN  [k \in 0..(Kg - 1) |->
            round3(grow[k] - concept_embeds_weights[k] + final)]

OwnVerdict(srow, grow) ==
    LET ss == OwnSpecialScores(srow)
        cs == OwnConceptScores(srow, grow)
    IN  [special_scores |-> ss,
         special_care |-> {[concept_idx |-> k, score |-> ss[k]] :
                              k \in {x \in 0..(Ks - 1) : ss[x] > 0}},
         concept_scores |-> cs,
         bad_concepts |-> {k \in 0..(Kg - 1) : cs[k] > 0}]

VerdictOf(res) ==
    [special_scores |-> res.special_scores,
     special_care |-> Members(res.special_care),
     concept_scores |-> res.concept_scores,
     bad_concepts |-> Members(res.bad_concepts)]

\* C5: the verdict and flag of an image are a function of that image's own
\* similarity rows and the thresholds: two images of a batch with the same
\* embedding get the same verdict, and every image starts its special loop
\* with adjustment 0.0 whatever image or call came before.
C5_VerdictOfOwnRowsOnly ==
    /\ \A n \in 1..Len(result) :
        LET own == OwnVerdict(special_cos_dist[n - 1], cos_dist[n - 1])
        IN  /\ VerdictOf(result[n]) = own
            /\ n <= Len(has_nsfw_concepts) =>
                 (has_nsfw_concepts[n] <=> (own.bad_concepts # {}))
            /\ \A m \in 1..Len(result) :
                 image_embeds.rows[n] = image_embeds.rows[m]
                    => result[n] = result[m]
    /\ Len(has_nsfw_concepts) \in {0, Len(result)}
    /\ (pc = "special" /\ concept_idx = 0) => adjustment = 0

\* the second image of a batch starts its special loop right after a
\* different image that raised the adjustment to 0.01
C5_Witness ==
    /\ pc = "special" /\ concept_idx = 0 /\ i = 1
    /\ Len(result[1].special_care) > 0
    /\ Len(image_embeds.rows) = 2
    /\ image_embeds.rows[1] # image_embeds.rows[2]

\* C6: every recorded score is similarity - threshold + adjustment rounded
\* to 3 decimal places, and a concept is a hit iff its rounded score is
\* > 0: similarity = threshold with adjustment 0.0 scores 0 and is no hit,
\* and a positive difference that rounds to 0.000 is no hit.
C6_RoundedScoresStrictHits ==
    \A n \in Scored :
        LET res == ResultOf(n) IN
        /\ \A k \in DOMAIN res.special_scores :
            LET sc == res.special_scores[k]
                raw == SpecialRaw(n, k)
            IN  /\ sc % 10 = 0
                /\ sc - raw <= 5 /\ raw - sc <= 5
                /\ (k \in SpecialCareIdx(res)) <=> sc > 0
                /\ (raw >= 0 /\ raw < 5) => (sc = 0 /\ k \notin SpecialCareIdx(res))
        /\ \A k \in DOMAIN res.concept_scores :
            LET sc == res.concept_scores[k]
                raw == GeneralRaw(n, k)
            IN  /\ sc % 10 = 0
                /\ sc - raw <= 5 /\ raw - sc <= 5
                /\ (k \in Members(res.bad_concepts)) <=> sc > 0
                /\ (raw >= 0 /\ raw < 5)
                     => (sc = 0 /\ k \notin Members(res.bad_concepts))

\* an image came back whose general concept 1 sat exactly on its threshold
\* and whose concept 3 was 0.0004 over it, both with adjustment 0.0 and
\* neither a hit, next to a concept that was a hit
C6_Witness ==
    /\ Returned
    /\ \E n \in 1..Len(result) :
        /\ GeneralRaw(n, 1) = 0 /\ applied[n].general[1] = 0
        /\ GeneralRaw(n, 3) = 4
        /\ result[n].concept_scores[1] = 0
        /\ result[n].concept_scores[3] = 0
        /\ 1 \notin Members(result[n].bad_concepts)
        /\ 3 \notin Members(result[n].bad_concepts)
        /\ 5 \in Members(result[n].bad_concepts)

\* a call is in progress or has just ended
InCall == ~Idle

Mismatch ==
    \/ image_embeds.dim # special_care_embeds.dim
    \/ image_embeds.dim # concept_embeds.dim

\* C7: when the embedding dimension of the image embeddings differs from
\* that of either bank, the call ends with an error and nothing else: no
\* image is modified, no advisory is emitted, no flags are produced.
C7_MismatchFailsWhole ==
    (InCall /\ Mismatch) =>
        /\ pc = "raised"
        /\ ret = "RuntimeError"
        /\ images = images_in
        /\ warnings = 0
        /\ has_nsfw_concepts = <<>>
        /\ result = <<>>

\* a call with a non-empty batch failed on the general bank after the
\* special-care similarities had been computed
C7_Witness ==
    /\ pc = "raised"
    /\ Len(images_in.items) = 2
    /\ image_embeds.dim = special_care_embeds.dim
    /\ image_embeds.dim # concept_embeds.dim

ZeroNorm(v) == \A d \in 1..Len(v) : v[d] = 0

\* C8: a zero-norm image embedding has similarity exactly 0 against every
\* concept of both banks, and the division by its norm yields no NaN.
C8_ZeroNormSimilarityZero ==
    \A n \in 1..Len(image_embeds.rows) :
        ZeroNorm(image_embeds.rows[n]) =>
            /\ special_cos_dist # <<>> =>
                 \A k \in DOMAIN special_cos_dist[n - 1] :
                    special_cos_dist[n - 1][k] = 0
            /\ cos_dist # <<>> =>
                 \A k \in DOMAIN cos_dist[n - 1] : cos_dist[n - 1][k] = 0

\* a batch with a zero-norm embedding next to a non-zero one was scored
\* against a loaded bank
C8_Witness ==
    /\ Returned
    /\ Len(image_embeds.rows) = 2
    /\ ZeroNorm(image_embeds.rows[1])
    /\ DOMAIN cos_dist[0] = 0..(Kg - 1)
    /\ DOMAIN special_cos_dist[0] = 0..(Ks - 1)
    /\ \E k \in 0..(Kg - 1) : cos_dist[1][k] = Scale

\* C10: in the special loop of one image the adjustment added to concept k
\* is 0.01 iff a special concept j < k of that image had a rounded score
\* > 0, and 0.0 otherwise; it is never anything but 0.0 or 0.01.
C10_SpecialAdjustmentOrder ==
    /\ adjustment \in {0, Bump}
    /\ \A n \in Scored :
        LET res == ResultOf(n) IN
        \A k \in DOMAIN applied[n].special :
            applied[n].special[k] =
                IF \E j \in 0..(k - 1) : res.special_scores[j] > 0
                THEN Bump ELSE 0

\* an image whose special concept 0 was no hit and concept 1 was the first
\* hit: concept 1 was scored with 0.0, concept 2 with 0.01 and was a second
\* hit only because of it
C10_Witness ==
    /\ pc = "general"
    /\ result_img.special_scores[0] <= 0
    /\ result_img.special_scores[1] > 0
    /\ applied[i + 1].special[1] = 0
    /\ applied[i + 1].special[2] = Bump
    /\ SpecialRaw(i + 1, 2) - Bump < 0
    /\ result_img.special_scores[2] > 0
    /\ Len(result_img.special_care) = 2
    /\ adjustment = Bump

====
